---- MODULE Spec2Model ----
(***************************************************************************)
(* Transfer engine of s3downloader: Downloader.ListAndDownloadObjects and  *)
(* Downloader.downloadWorker (internal/aws/downloader.go), together with   *)
(* the caller of the engine in internal/ui/components.go.                  *)
(*                                                                         *)
(* An invocation is modelled: the top-level call ("main"), the lister      *)
(* goroutine, the closer goroutine, MaxWorkers worker goroutines, the      *)
(* cancellation of ctx and the consumer of the progress channel.  In the   *)
(* lister and the workers every access to shared memory (an atomic add or  *)
(* load, a channel operation, a read of ctx.Done) is a step of its own; a  *)
(* wait and the close that follows it are one step of the closer.          *)
(***************************************************************************)
EXTENDS Integers, Sequences, FiniteSets, TLC

(* ------------------------------ bounds -------------------------------- *)
\* Largest Config.MaxWorkers an invocation is given (any int >= 1 in the program).
MaxWorkers == 2
\* Number of entries the remote listing holds.
NumObjs == 2
\* Number of listing entries one page of ListObjectsV2 carries.
PageSize == 1
\* Capacity of fileChan, scaled down from the program's 1000.
FileChanCap == 1
\* Capacity of the progress channel, scaled down from progressBufferSize.
ProgCap == 1
\* Objects 1..NumPre may have a file at their local path before the run.
NumPre == 1

Workers == 1..MaxWorkers

\* An object key is the sequence of its "/"-separated segments, so that a key
\* with a trailing slash ends with an empty segment: "dir/" is <<"dir", "">>.
FileKey(e) ==
  CASE e = 1 -> <<"f1.txt">>
    [] e = 2 -> <<"f2.txt">>
    [] OTHER -> <<"dir", "f3.txt">>

FileSize(e) ==
  CASE e = 1 -> 100
    [] e = 2 -> 200
    [] e = 3 -> 50
    [] OTHER -> 10 * e

\* The bucket's listing: files, and last a zero-byte directory marker "dir/".
BaseListing ==
  [e \in 1..NumObjs |->
     IF e = NumObjs THEN [key |-> <<"dir", "">>, size |-> 0]
                    ELSE [key |-> FileKey(e), size |-> FileSize(e)]]

\* Trailing path separators are removed before extracting the last element.
RECURSIVE TrimSeparators(_)
TrimSeparators(k) ==
  IF k # <<>> /\ k[Len(k)] = "" THEN TrimSeparators(SubSeq(k, 1, Len(k) - 1)) ELSE k

\* filepath.Base: the last element of the path; "." for the empty path, a single
\* separator for a path that consists entirely of separators.
Base(k) ==
  LET t == TrimSeparators(k)
  IN  IF t # <<>> THEN t[Len(t)]
      ELSE IF Len(k) > 1 THEN "/" ELSE "."

\* var ErrDownloadCanceled = errors.New("download operation canceled")
ErrDownloadCanceled == <<"canceled", 0>>

NoSnap == [found |-> 0, downloaded |-> 0, skipped |-> 0, bytes |-> 0, errors |-> 0]
NoOutcome == [kind |-> "none", first |-> <<"none", 0>>, count |-> 0]

VARIABLES
  ctx,            \* TRUE once ctx.Done() is closed
  overwrite,      \* the overwrite argument
  maxWorkers,     \* d.config.MaxWorkers
  faults,         \* the environment may fail a request, a directory or file creation, a transfer
  audit,          \* the history of the lister's snapshots (lprev) is kept
  listing,        \* what ListObjectsV2 returns for the bucket and prefix, in order
  fs,             \* fs[p]: the file at local path p (relative to the download path)
  dirs,           \* the directories that exist below the download path, by path
  foundFiles, processedFiles, skippedFiles, totalBytes, errorCount,
  fileChan, fileChanClosed,
  errChan, errChanClosed,
  doneChan, listingDone,      \* TRUE once closed
  wg,                         \* sync.WaitGroup counter
  progressChan, progClosed,   \* the caller's progress channel: snapshots buffered, closed
  panicked,                   \* a goroutine panicked (send on a closed channel)
  lpc, lidx, lreg, listErr,   \* lister: position, entry in hand, snapshot under construction, err
  cpc,                        \* closer goroutine
  wpc, wfile, wreg, werr,     \* workers: position, item in hand (0: none), snapshot, error to send
  mpc, errs, finalProgress, outcome,   \* top-level call
  finalOffered,               \* history: the final snapshot was offered to progressChan
  status,                     \* history: fate of every listing entry
  attempts,                   \* history: how often entry e was taken from fileChan
  sawCancel,                  \* history: worker's select took the ctx.Done case
  ctxAtSelect, ctxAtReturn,   \* history: ctx when main passed its select / returned
  pre,                        \* history: objects with a file at their local path when the run began
  run,                        \* history: 1 in the first invocation, 2 in the one that follows it
  lprev,                      \* history, kept with audit: the snapshot the lister built before the one in lreg
  util,                       \* history: the calls of fileutils functions made outside an invocation
  args                        \* history: the bucket and download path ListAndDownloadObjects was called with

vars == <<ctx, overwrite, maxWorkers, faults, audit, listing, fs, dirs, foundFiles, processedFiles, skippedFiles, totalBytes,
          errorCount, fileChan, fileChanClosed, errChan, errChanClosed, doneChan,
          listingDone, wg, progressChan, progClosed, panicked, lpc, lidx, lreg,
          listErr, cpc, wpc, wfile, wreg, werr, mpc, errs, finalProgress, outcome,
          finalOffered, status, attempts, sawCancel, ctxAtSelect, ctxAtReturn, pre, run, lprev, util, args>>

sharedVars == <<ctx, overwrite, maxWorkers, faults, audit, listing, fs, dirs, foundFiles, processedFiles, skippedFiles, totalBytes,
                errorCount, fileChan, fileChanClosed, errChan, errChanClosed, doneChan,
                listingDone, wg, progressChan, progClosed, panicked>>
listerVars == <<lpc, lidx, lreg, listErr>>
workerVars == <<wpc, wfile, wreg, werr>>
mainVars == <<mpc, errs, finalProgress, outcome, finalOffered>>
histVars == <<status, attempts, sawCancel, ctxAtSelect, ctxAtReturn, pre, run, lprev, util, args>>

Running == ~panicked

ListLen == Len(listing)
\* The descriptors of the listing, by position.
Objs == 1..ListLen

\* Faulty variant: every object counts as one byte.
SizeOne(e) == 1

\* aws.StringValue(obj.Key), aws.Int64Value(obj.Size)
Key(e) == listing[e].key
Size(e) == listing[e].size

\* Skip directories: aws.Int64Value(obj.Size) == 0 && filepath.Base(key) == ""
IsMarker(e) == Size(e) = 0 /\ Base(Key(e)) = ""

\* filepath.Clean, as far as the keys of a listing need it: doubled, leading and
\* trailing separators are dropped (no key has a "." or ".." segment).
RECURSIVE Clean(_)
Clean(k) ==
  IF k = <<>> THEN <<>>
  ELSE IF Head(k) = "" THEN Clean(Tail(k))
  ELSE <<Head(k)>> \o Clean(Tail(k))

\* localFilePath := filepath.Join(downloadPath, key), relative to downloadPath
LocalPath(e) == Clean(Key(e))

\* filepath.Dir(localFilePath)
Dir(p) == IF p = <<>> THEN <<>> ELSE SubSeq(p, 1, Len(p) - 1)

\* A path and the paths of the directories above it, the download path included.
Prefixes(p) == {SubSeq(p, 1, n) : n \in 0..Len(p)}

\* The local paths the listing resolves to.
Paths == {LocalPath(e) : e \in Objs}

\* What is at the resolved local path of object o.
At(o) == fs[LocalPath(o)]

\* A file is at path q.
IsFile(q) == q \in DOMAIN fs /\ fs[q] # "none"

\* Faulty variant: os.Mkdir, which fails when the directory exists already.
CanMkdirFresh(p) == p \notin dirs /\ \A q \in Prefixes(p) : ~IsFile(q)

\* os.MkdirAll(p) can succeed: no element of p is a file.
CanMkdir(p) == \A q \in Prefixes(p) : ~IsFile(q)

\* Faulty variant: the directories are not created.
MkdirSkipped(p) == dirs

\* Faulty variant: only the last directory is created, not the ones above it.
MkdirLeaf(p) == dirs \cup {p}

\* os.MkdirAll(p, os.ModePerm): p and every missing directory above it.
MkdirAll(p) == dirs \cup Prefixes(p)

\* A path as the fileutils functions are given it: the download path "D" followed
\* by the elements below it.  The empty path "" has no element.
Abs(p) == <<"D">> \o p
EmptyPath == <<>>

\* Faulty variant: no test for the empty path, which counts as the download path.
EnsureUnchecked(path) ==
  LET p == IF path = EmptyPath THEN <<>> ELSE Tail(path)
  IN  [err |-> "nil", dirs |-> MkdirAll(p)]

\* fileutils.EnsureDirectoryExists(path): the error it returns and the
\* directories that exist afterwards.
EnsureDirectoryExists(path) ==
  IF path = EmptyPath
    THEN [err |-> "empty path provided", dirs |-> dirs]
    ELSE IF CanMkdir(Tail(path))
           THEN [err |-> "nil", dirs |-> MkdirAll(Tail(path))]
           ELSE [err |-> "not a directory", dirs |-> dirs]

\* Faulty variant: the empty path counts as the current directory, which exists.
FileExistsOrEmpty(path) == path = EmptyPath \/ IsFile(Tail(path)) \/ Tail(path) \in dirs

\* fileutils.FileExists(path): _, err := os.Stat(path); return err == nil
FileExistsPath(path) == path # EmptyPath /\ (IsFile(Tail(path)) \/ Tail(path) \in dirs)

\* os.Create(p) can succeed: p is not a directory and its parent directory exists.
CanCreate(p) == p \notin dirs /\ Dir(p) \in dirs

\* lastPage of the page that holds listing entry e.
LastPage(e) == ((e - 1) \div PageSize) = ((ListLen - 1) \div PageSize)
\* Entry e is the last one of page.Contents.
PageEnd(e) == (e % PageSize = 0) \/ (e = ListLen)

\* The state in which ListAndDownloadObjects is called for the listing l; the
\* download path exists, and so does the directory of every file below it.
InitFor(l, fl, au) ==
  /\ ctx = FALSE
  /\ overwrite \in BOOLEAN
  /\ maxWorkers \in 1..MaxWorkers
  /\ faults = fl
  /\ audit = au
  /\ listing = l
  /\ fs \in {f \in [Paths -> {"none", "old"}] :
               \A p \in Paths : f[p] = "old" => \E o \in Objs : o <= NumPre /\ LocalPath(o) = p}
  /\ \/ dirs = UNION {Prefixes(Dir(p)) : p \in {q \in Paths : fs[q] # "none"} \cup {<<>>}}
     \/ (\A p \in Paths : fs[p] = "none") /\ dirs = {}
  /\ foundFiles = 0 /\ processedFiles = 0 /\ skippedFiles = 0
  /\ totalBytes = 0 /\ errorCount = 0
  /\ fileChan = <<>> /\ fileChanClosed = FALSE
  /\ errChan = <<>> /\ errChanClosed = FALSE
  /\ doneChan = FALSE /\ listingDone = FALSE
  /\ wg = 0
  /\ progressChan = 0 /\ progClosed = FALSE
  /\ panicked = FALSE
  /\ lpc = "unstarted" /\ lidx = 1 /\ lreg = NoSnap /\ listErr = "nil"
  /\ cpc = "unstarted"
  /\ wpc = [w \in Workers |-> "unstarted"]
  /\ wfile = [w \in Workers |-> 0]
  /\ wreg = [w \in Workers |-> NoSnap]
  /\ werr = [w \in Workers |-> <<"none", 0>>]
  /\ mpc = "validate" /\ errs = <<>> /\ finalProgress = NoSnap /\ outcome = NoOutcome
  /\ finalOffered = FALSE
  /\ status = [e \in Objs |-> "unlisted"]
  /\ attempts = [e \in Objs |-> 0]
  /\ sawCancel = [w \in Workers |-> FALSE]
  /\ ctxAtSelect = FALSE /\ ctxAtReturn = FALSE
  /\ pre = {o \in Objs : At(o) # "none"}
  /\ run = 1
  /\ lprev = <<>>
  /\ util = <<>>
  /\ args = <<>>

Init == InitFor(BaseListing, TRUE, FALSE)

(* ------------------------- channel helpers ---------------------------- *)
\* errChan := make(chan error, d.config.MaxWorkers)
ErrChanCap == maxWorkers

\* Faulty variant: a channel without bound, a send always proceeds.
CanSendAlways(ch, cap) == TRUE

\* A send on a buffered channel can proceed: there is room in the buffer.
CanSend(ch, cap) == Len(ch) < cap

\* Faulty variant: a publish without default case, which waits for room in the buffer.
DefaultNever(n) == FALSE

\* default: of a publish select is taken when the send cannot proceed, the
\* buffer of progressChan holding n snapshots.
DefaultReady(n) == ~(n < ProgCap)

\* Faulty variant: the superseded convention that counts skipped files as downloaded.
DownloadedGross(p, s) == p

\* FilesDownloaded: atomic.LoadInt64(&processedFiles) - atomic.LoadInt64(&skippedFiles)
Downloaded(p, s) == p - s

\* Faulty variant: a plain store of the delta instead of an atomic add.
StoreInt64(c, d) == d

\* atomic.AddInt64(&c, d)
AddInt64(c, d) == c + d

(* ----------------------------- cancellation --------------------------- *)
\* StopDownload: u.state.cancelFunc()
Cancel ==
  /\ Running
  /\ mpc # "validate"
  /\ ~ctx
  /\ ctx' = TRUE
  /\ UNCHANGED <<overwrite, maxWorkers, faults, audit, listing, fs, dirs, foundFiles, processedFiles, skippedFiles, totalBytes,
                 errorCount, fileChan, fileChanClosed, errChan, errChanClosed, doneChan,
                 listingDone, wg, progressChan, progClosed, panicked>>
  /\ UNCHANGED <<listerVars, cpc, workerVars, mainVars, histVars>>

(* ------------------------- top-level call: start ---------------------- *)
\* The arguments a caller passes: bucket names and download paths.
Buckets == {"", "bucket"}
DownloadPaths == {EmptyPath, Abs(<<>>)}

\* Faulty variant: no argument is rejected.
ValidateNothing(bucket, downloadPath) == "nil"

\* The validation of ListAndDownloadObjects, by the error it ends with ("nil":
\* none): empty bucket, empty download path, or a download path that does not
\* exist and cannot be created.
Validate(bucket, downloadPath) ==
  IF bucket = "" THEN "bucket"
  ELSE IF downloadPath = EmptyPath THEN "path"
  ELSE IF ~FileExistsPath(downloadPath) /\ EnsureDirectoryExists(downloadPath).err # "nil"
         THEN "mkdir"
         ELSE "nil"

\* The call returns the error of its validation.  The creation of a missing
\* download path may also fail for a reason of the environment.
MReject ==
  /\ Running
  /\ mpc = "validate"
  /\ \E bucket \in Buckets, downloadPath \in DownloadPaths :
       /\ args' = <<bucket, downloadPath>>
       /\ \/ /\ Validate(bucket, downloadPath) # "nil"
             /\ outcome' = [kind |-> "InvalidArgs",
                            first |-> <<Validate(bucket, downloadPath), 0>>, count |-> 0]
          \/ /\ Validate(bucket, downloadPath) = "nil"
             /\ ~FileExistsPath(downloadPath) /\ faults
             /\ outcome' = [kind |-> "InvalidArgs", first |-> <<"mkdir", 0>>, count |-> 0]
  /\ mpc' = "returned"
  /\ UNCHANGED <<sharedVars, listerVars, cpc, workerVars, errs, finalProgress, finalOffered,
                 status, attempts, sawCancel, ctxAtSelect, ctxAtReturn, pre, run, lprev, util>>

\* Faulty variant: a worker is started for every slot, whatever MaxWorkers is.
StartedAll(w, n) == TRUE

\* for i := 0; i < d.config.MaxWorkers; i++ { wg.Add(1); go func() { ... }() }
Started(w, n) == w <= n

\* Counters and channels are allocated, wg.Add(1) per worker, the workers, the
\* lister and the closer goroutine are started.
MStart ==
  /\ Running
  /\ mpc = "validate"
  /\ \E bucket \in Buckets, downloadPath \in DownloadPaths :
       /\ Validate(bucket, downloadPath) = "nil"
       /\ args' = <<bucket, downloadPath>>
       /\ dirs' = IF FileExistsPath(downloadPath)
                    THEN dirs
                    ELSE EnsureDirectoryExists(downloadPath).dirs
  /\ wg' = maxWorkers
  /\ wpc' = [w \in Workers |-> IF Started(w, maxWorkers) THEN "recv" ELSE "unstarted"]
  /\ lpc' = "fetch"
  /\ cpc' = "waitListing"
  /\ mpc' = "select"
  /\ UNCHANGED <<ctx, overwrite, maxWorkers, faults, audit, listing, fs, foundFiles, processedFiles, skippedFiles, totalBytes,
                 errorCount, fileChan, fileChanClosed, errChan, errChanClosed, doneChan,
                 listingDone, progressChan, progClosed, panicked>>
  /\ UNCHANGED <<lidx, lreg, listErr, wfile, wreg, werr, errs, finalProgress, finalOffered, outcome,
                 status, attempts, sawCancel, ctxAtSelect, ctxAtReturn, pre, run, lprev, util>>

(* ------------------------------- lister ------------------------------- *)
\* Where the paging callback goes after entry e: the next entry of the page, the
\* next page fetch, or (return !lastPage) the end of the listing.
NextPc(e) == IF PageEnd(e) THEN (IF LastPage(e) THEN "lclose" ELSE "fetch") ELSE "item"
NextIdx(e) == IF PageEnd(e) /\ LastPage(e) THEN e ELSE e + 1

\* ListObjectsV2PagesWithContext fetches the page that starts at lidx.  With ctx
\* done the request ends with the context's error (context.Canceled).
LFetch ==
  /\ Running
  /\ lpc = "fetch"
  /\ IF ctx
       THEN /\ listErr' = "canceled"
            /\ lpc' = "lerr"
       ELSE \/ /\ lpc' = "item"
               /\ UNCHANGED listErr
            \/ /\ faults
               /\ listErr' = "failed"
               /\ lpc' = "lerr"
  /\ UNCHANGED <<sharedVars, lidx, lreg, cpc, workerVars, mainVars, histVars>>

\* The loop body up to the enqueue:
\*   if aws.Int64Value(obj.Size) == 0 && filepath.Base(key) == "" { continue }
\*   select { case fileChan <- obj: ... case <-ctx.Done(): return false }
LEnqueue ==
  /\ Running
  /\ lpc = "item"
  /\ IF IsMarker(lidx)
       THEN /\ status' = [status EXCEPT ![lidx] = "marker"]
            /\ lpc' = NextPc(lidx)
            /\ lidx' = NextIdx(lidx)
            /\ UNCHANGED <<fileChan, panicked>>
       ELSE \/ /\ fileChanClosed
               /\ panicked' = TRUE
               /\ UNCHANGED <<fileChan, lpc, lidx, status>>
            \/ /\ ~fileChanClosed
               /\ CanSend(fileChan, FileChanCap)
               /\ fileChan' = Append(fileChan, lidx)
               /\ status' = [status EXCEPT ![lidx] = "queued"]
               /\ lpc' = "addFound"
               /\ UNCHANGED <<lidx, panicked>>
            \/ /\ ctx
               /\ lpc' = "lclose"
               /\ UNCHANGED <<fileChan, lidx, status, panicked>>
  /\ UNCHANGED <<ctx, overwrite, maxWorkers, faults, audit, listing, fs, dirs, foundFiles, processedFiles, skippedFiles, totalBytes,
                 errorCount, fileChanClosed, errChan, errChanClosed, doneChan,
                 listingDone, wg, progressChan, progClosed>>
  /\ UNCHANGED <<lreg, listErr, cpc, workerVars, mainVars,
                 attempts, sawCancel, ctxAtSelect, ctxAtReturn, pre, run, lprev, util, args>>

\* atomic.AddInt64(&foundFiles, 1)
LAddFound ==
  /\ Running
  /\ lpc = "addFound"
  /\ foundFiles' = AddInt64(foundFiles, 1)
  /\ lpc' = "ldFound"
  /\ UNCHANGED <<ctx, overwrite, maxWorkers, faults, audit, listing, fs, dirs, processedFiles, skippedFiles, totalBytes,
                 errorCount, fileChan, fileChanClosed, errChan, errChanClosed, doneChan,
                 listingDone, wg, progressChan, progClosed, panicked>>
  /\ UNCHANGED <<lidx, lreg, listErr, cpc, workerVars, mainVars, histVars>>

\* The loads that build currentValues, in evaluation order.  ErrorCount is not set.
LLoad ==
  /\ Running
  /\ \/ /\ lpc = "ldFound"
        /\ lreg' = [lreg EXCEPT !.found = foundFiles]
        /\ lpc' = "ldProc"
     \/ /\ lpc = "ldProc"
        /\ lreg' = [lreg EXCEPT !.downloaded = processedFiles]
        /\ lpc' = "ldSkipA"
     \/ /\ lpc = "ldSkipA"
        /\ lreg' = [lreg EXCEPT !.downloaded = Downloaded(lreg.downloaded, skippedFiles)]
        /\ lpc' = "ldSkipB"
     \/ /\ lpc = "ldSkipB"
        /\ lreg' = [lreg EXCEPT !.skipped = skippedFiles]
        /\ lpc' = "ldBytes"
     \/ /\ lpc = "ldBytes"
        /\ lreg' = [lreg EXCEPT !.bytes = totalBytes]
        /\ lpc' = "publish"
  /\ UNCHANGED <<sharedVars, lidx, listErr, cpc, workerVars, mainVars, histVars>>

\* select { case progressChan <- currentValues: case <-ctx.Done(): return false; default: }
LPublish ==
  /\ Running
  /\ lpc = "publish"
  /\ lreg' = NoSnap
  /\ lprev' = IF audit THEN <<lreg>> ELSE lprev
  /\ \/ /\ progClosed
        /\ panicked' = TRUE
        /\ UNCHANGED <<progressChan, lpc, lidx>>
     \/ /\ ~progClosed
        /\ progressChan < ProgCap
        /\ progressChan' = progressChan + 1
        /\ lpc' = NextPc(lidx)
        /\ lidx' = NextIdx(lidx)
        /\ UNCHANGED panicked
     \/ /\ ctx
        /\ lpc' = "lclose"
        /\ UNCHANGED <<progressChan, lidx, panicked>>
     \/ /\ ~ctx /\ ~progClosed /\ DefaultReady(progressChan)
        /\ lpc' = NextPc(lidx)
        /\ lidx' = NextIdx(lidx)
        /\ UNCHANGED <<progressChan, panicked>>
  /\ UNCHANGED <<ctx, overwrite, maxWorkers, faults, audit, listing, fs, dirs, foundFiles, processedFiles, skippedFiles, totalBytes,
                 errorCount, fileChan, fileChanClosed, errChan, errChanClosed, doneChan,
                 listingDone, wg, progClosed>>
  /\ UNCHANGED <<listErr, cpc, workerVars, mainVars,
                 status, attempts, sawCancel, ctxAtSelect, ctxAtReturn, pre, run, util, args>>

\* if err != nil { if !errors.Is(err, context.Canceled) { select { case errChan <- ...: default: } } }
LErr ==
  /\ Running
  /\ lpc = "lerr"
  /\ IF listErr = "canceled"
       THEN UNCHANGED <<errChan, panicked>>
       ELSE \/ /\ errChanClosed
               /\ panicked' = TRUE
               /\ UNCHANGED errChan
            \/ /\ ~errChanClosed
               /\ CanSend(errChan, ErrChanCap)
               /\ errChan' = Append(errChan, <<"listing", 0>>)
               /\ UNCHANGED panicked
            \/ /\ ~errChanClosed
               /\ ~CanSend(errChan, ErrChanCap)
               /\ UNCHANGED <<errChan, panicked>>
  /\ lpc' = "lclose"
  /\ UNCHANGED <<ctx, overwrite, maxWorkers, faults, audit, listing, fs, dirs, foundFiles, processedFiles, skippedFiles, totalBytes,
                 errorCount, fileChan, fileChanClosed, errChanClosed, doneChan,
                 listingDone, wg, progressChan, progClosed>>
  /\ UNCHANGED <<lidx, lreg, listErr, cpc, workerVars, mainVars, histVars>>

\* defer close(listingDone)
LClose ==
  /\ Running
  /\ lpc = "lclose"
  /\ listingDone' = TRUE
  /\ lpc' = "done"
  /\ UNCHANGED <<ctx, overwrite, maxWorkers, faults, audit, listing, fs, dirs, foundFiles, processedFiles, skippedFiles, totalBytes,
                 errorCount, fileChan, fileChanClosed, errChan, errChanClosed, doneChan,
                 wg, progressChan, progClosed, panicked>>
  /\ UNCHANGED <<lidx, lreg, listErr, cpc, workerVars, mainVars, histVars>>

Lister == LFetch \/ LEnqueue \/ LAddFound \/ LLoad \/ LPublish \/ LErr \/ LClose

(* ------------------------------ workers ------------------------------- *)
\* Faulty variant: os.Stat never finds the file.
FileExistsNever(o) == FALSE

\* fileutils.FileExists(localFilePath): os.Stat succeeds.
FileExists(o) == FileExistsPath(Abs(LocalPath(o)))

\* Faulty variant: the worker's select never takes the ctx.Done case.
ObservesCancelNever(c) == FALSE

\* select { case <-ctx.Done(): return; default: ... }: the ctx.Done case is taken
\* exactly when the channel is closed, the default only when it is not.
ObservesCancel(c) == c

\* Faulty variant: a receive that leaves the descriptor in the queue.
Peek(ch) == ch

\* What a receive leaves in the buffer of a channel: all but the oldest element.
Receive(ch) == Tail(ch)

\* for file := range fileChan; with the queue closed and empty: defer wg.Done()
WRecv(w) ==
  /\ Running
  /\ wpc[w] = "recv"
  /\ \/ /\ fileChan # <<>>
        /\ wfile' = [wfile EXCEPT ![w] = Head(fileChan)]
        /\ fileChan' = Receive(fileChan)
        /\ status' = [status EXCEPT ![Head(fileChan)] = "taken"]
        /\ attempts' = [attempts EXCEPT ![Head(fileChan)] = @ + 1]
        /\ wpc' = [wpc EXCEPT ![w] = "select"]
        /\ UNCHANGED wg
     \/ /\ fileChan = <<>>
        /\ fileChanClosed
        /\ wg' = wg - 1
        /\ wpc' = [wpc EXCEPT ![w] = "exit"]
        /\ UNCHANGED <<wfile, fileChan, status, attempts>>
  /\ UNCHANGED <<ctx, overwrite, maxWorkers, faults, audit, listing, fs, dirs, foundFiles, processedFiles, skippedFiles, totalBytes,
                 errorCount, fileChanClosed, errChan, errChanClosed, doneChan,
                 listingDone, progressChan, progClosed, panicked>>
  /\ UNCHANGED <<listerVars, cpc, wreg, werr, mainVars,
                 sawCancel, ctxAtSelect, ctxAtReturn, pre, run, lprev, util, args>>

\* The cancellation check on the item in hand.
WSelect(w) ==
  /\ Running
  /\ wpc[w] = "select"
  /\ IF ObservesCancel(ctx)
       THEN /\ sawCancel' = [sawCancel EXCEPT ![w] = TRUE]
            /\ status' = [status EXCEPT ![wfile[w]] = "dropped"]
            /\ wfile' = [wfile EXCEPT ![w] = 0]
            /\ wg' = wg - 1
            /\ wpc' = [wpc EXCEPT ![w] = "exit"]
       ELSE /\ wpc' = [wpc EXCEPT ![w] = "mkdir"]
            /\ UNCHANGED <<sawCancel, status, wg, wfile>>
  /\ UNCHANGED <<ctx, overwrite, maxWorkers, faults, audit, listing, fs, dirs, foundFiles, processedFiles, skippedFiles, totalBytes,
                 errorCount, fileChan, fileChanClosed, errChan, errChanClosed, doneChan,
                 listingDone, progressChan, progClosed, panicked>>
  /\ UNCHANGED <<listerVars, cpc, wreg, werr, mainVars,
                 attempts, ctxAtSelect, ctxAtReturn, pre, run, lprev, util, args>>

\* Faulty variant: the worker goes on to the next item without reporting the error.
FailSilently(w) ==
  /\ status' = [status EXCEPT ![wfile[w]] = "failed"]
  /\ wpc' = [wpc EXCEPT ![w] = "recv"]
  /\ UNCHANGED werr

\* Faulty variant: every error of an item is reported as a cancellation.
FailAsCanceled(w) ==
  /\ werr' = [werr EXCEPT ![w] = ErrDownloadCanceled]
  /\ status' = [status EXCEPT ![wfile[w]] = "failed"]
  /\ wpc' = [wpc EXCEPT ![w] = "senderr"]

\* The worker leaves the item with an error that names its key (the message
\* prefix, which no decision reads, is not kept): errChan <- err; continue
Fail(w) ==
  /\ werr' = [werr EXCEPT ![w] = <<"object", wfile[w]>>]
  /\ status' = [status EXCEPT ![wfile[w]] = "failed"]
  /\ wpc' = [wpc EXCEPT ![w] = "senderr"]

\* fileutils.EnsureDirectoryExists(localDir) in downloadWorker
WMkdir(w) ==
  /\ Running
  /\ wpc[w] = "mkdir"
  /\ LET r == EnsureDirectoryExists(Abs(Dir(LocalPath(wfile[w]))))
     IN  \/ /\ r.err = "nil"
            /\ dirs' = r.dirs
            /\ wpc' = [wpc EXCEPT ![w] = "stat"]
            /\ UNCHANGED <<werr, status>>
         \/ /\ faults \/ r.err # "nil"
            /\ Fail(w)
            /\ UNCHANGED dirs
  /\ UNCHANGED <<ctx, overwrite, maxWorkers, faults, audit, listing, fs, foundFiles, processedFiles, skippedFiles,
                 totalBytes, errorCount, fileChan, fileChanClosed, errChan, errChanClosed, doneChan,
                 listingDone, wg, progressChan, progClosed, panicked>>
  /\ UNCHANGED <<listerVars, cpc, wfile, wreg, mainVars,
                 attempts, sawCancel, ctxAtSelect, ctxAtReturn, pre, run, lprev, util, args>>

\* Faulty variant: the worker never skips.
ShouldSkipNever(exists, ow) == FALSE

\* Faulty variant: the worker skips every existing file, whatever overwrite says.
ShouldSkipExisting(exists, ow) == exists

\* Skip if file exists and user didn't choose "overwrite"
ShouldSkip(exists, ow) == exists /\ ~ow

\* if fileutils.FileExists(localFilePath) && !overwrite
WStat(w) ==
  /\ Running
  /\ wpc[w] = "stat"
  /\ wpc' = [wpc EXCEPT ![w] = IF ShouldSkip(FileExists(wfile[w]), overwrite)
                                 THEN "skipAddS" ELSE "dlMkdir"]
  /\ UNCHANGED <<sharedVars, listerVars, cpc, wfile, wreg, werr, mainVars, histVars>>

\* atomic.AddInt64(skippedFiles, 1)
WSkipAddS(w) ==
  /\ Running
  /\ wpc[w] = "skipAddS"
  /\ skippedFiles' = AddInt64(skippedFiles, 1)
  /\ wpc' = [wpc EXCEPT ![w] = "skipAddP"]
  /\ UNCHANGED <<ctx, overwrite, maxWorkers, faults, audit, listing, fs, dirs, foundFiles, processedFiles, totalBytes,
                 errorCount, fileChan, fileChanClosed, errChan, errChanClosed, doneChan,
                 listingDone, wg, progressChan, progClosed, panicked>>
  /\ UNCHANGED <<listerVars, cpc, wfile, wreg, werr, mainVars, histVars>>

\* atomic.AddInt64(processedFiles, 1) of the skip branch
WSkipAddP(w) ==
  /\ Running
  /\ wpc[w] = "skipAddP"
  /\ processedFiles' = AddInt64(processedFiles, 1)
  /\ status' = [status EXCEPT ![wfile[w]] = "skipped"]
  /\ wpc' = [wpc EXCEPT ![w] = "ldFound"]
  /\ UNCHANGED <<ctx, overwrite, maxWorkers, faults, audit, listing, fs, dirs, foundFiles, skippedFiles, totalBytes,
                 errorCount, fileChan, fileChanClosed, errChan, errChanClosed, doneChan,
                 listingDone, wg, progressChan, progClosed, panicked>>
  /\ UNCHANGED <<listerVars, cpc, wfile, wreg, werr, mainVars,
                 attempts, sawCancel, ctxAtSelect, ctxAtReturn, pre, run, lprev, util, args>>

\* downloadFile: fileutils.EnsureDirectoryExists(filepath.Dir(localPath))
WDlMkdir(w) ==
  /\ Running
  /\ wpc[w] = "dlMkdir"
  /\ LET r == EnsureDirectoryExists(Abs(Dir(LocalPath(wfile[w]))))
     IN  \/ /\ r.err = "nil"
            /\ dirs' = r.dirs
            /\ wpc' = [wpc EXCEPT ![w] = "create"]
            /\ UNCHANGED <<werr, status>>
         \/ /\ faults \/ r.err # "nil"
            /\ Fail(w)
            /\ UNCHANGED dirs
  /\ UNCHANGED <<ctx, overwrite, maxWorkers, faults, audit, listing, fs, foundFiles, processedFiles, skippedFiles,
                 totalBytes, errorCount, fileChan, fileChanClosed, errChan, errChanClosed, doneChan,
                 listingDone, wg, progressChan, progClosed, panicked>>
  /\ UNCHANGED <<listerVars, cpc, wfile, wreg, mainVars,
                 attempts, sawCancel, ctxAtSelect, ctxAtReturn, pre, run, lprev, util, args>>

\* downloadFile: os.Create(localPath) creates or truncates the file
WCreate(w) ==
  /\ Running
  /\ wpc[w] = "create"
  /\ \/ /\ CanCreate(LocalPath(wfile[w]))
        /\ fs' = [fs EXCEPT ![LocalPath(wfile[w])] = "partial"]
        /\ wpc' = [wpc EXCEPT ![w] = "download"]
        /\ UNCHANGED <<werr, status>>
     \/ /\ faults \/ ~CanCreate(LocalPath(wfile[w]))
        /\ Fail(w)
        /\ UNCHANGED fs
  /\ UNCHANGED <<ctx, overwrite, maxWorkers, faults, audit, listing, dirs, foundFiles, processedFiles, skippedFiles, totalBytes,
                 errorCount, fileChan, fileChanClosed, errChan, errChanClosed, doneChan,
                 listingDone, wg, progressChan, progClosed, panicked>>
  /\ UNCHANGED <<listerVars, cpc, wfile, wreg, mainVars,
                 attempts, sawCancel, ctxAtSelect, ctxAtReturn, pre, run, lprev, util, args>>

\* Faulty variant: the file of a failed transfer is left where it is.
LeftBehind(f) == f

\* Clean up partial file on error: f.Close(); os.Remove(localPath)
AfterFailedTransfer(f) == "none"

\* downloadFile: downloader.DownloadWithContext; on error f.Close(), os.Remove(localPath)
\* and ErrDownloadCanceled if errors.Is(err, context.Canceled).
WDownload(w) ==
  /\ Running
  /\ wpc[w] = "download"
  /\ IF ctx
       THEN /\ fs' = [fs EXCEPT ![LocalPath(wfile[w])] = AfterFailedTransfer(@)]
            /\ werr' = [werr EXCEPT ![w] = ErrDownloadCanceled]
            /\ status' = [status EXCEPT ![wfile[w]] = "aborted"]
            /\ wpc' = [wpc EXCEPT ![w] = "senderr"]
       ELSE \/ /\ fs' = [fs EXCEPT ![LocalPath(wfile[w])] = "new"]
               /\ wpc' = [wpc EXCEPT ![w] = "addP"]
               /\ UNCHANGED <<werr, status>>
            \/ /\ faults
               /\ fs' = [fs EXCEPT ![LocalPath(wfile[w])] = AfterFailedTransfer(@)]
               /\ Fail(w)
  /\ UNCHANGED <<ctx, overwrite, maxWorkers, faults, audit, listing, dirs, foundFiles, processedFiles, skippedFiles, totalBytes,
                 errorCount, fileChan, fileChanClosed, errChan, errChanClosed, doneChan,
                 listingDone, wg, progressChan, progClosed, panicked>>
  /\ UNCHANGED <<listerVars, cpc, wfile, wreg, mainVars,
                 attempts, sawCancel, ctxAtSelect, ctxAtReturn, pre, run, lprev, util, args>>

\* atomic.AddInt64(processedFiles, 1) after a successful download
WAddP(w) ==
  /\ Running
  /\ wpc[w] = "addP"
  /\ processedFiles' = AddInt64(processedFiles, 1)
  /\ wpc' = [wpc EXCEPT ![w] = "addB"]
  /\ UNCHANGED <<ctx, overwrite, maxWorkers, faults, audit, listing, fs, dirs, foundFiles, skippedFiles, totalBytes,
                 errorCount, fileChan, fileChanClosed, errChan, errChanClosed, doneChan,
                 listingDone, wg, progressChan, progClosed, panicked>>
  /\ UNCHANGED <<listerVars, cpc, wfile, wreg, werr, mainVars, histVars>>

\* atomic.AddInt64(totalBytes, size)
WAddB(w) ==
  /\ Running
  /\ wpc[w] = "addB"
  /\ totalBytes' = AddInt64(totalBytes, Size(wfile[w]))
  /\ status' = [status EXCEPT ![wfile[w]] = "downloaded"]
  /\ wpc' = [wpc EXCEPT ![w] = "ldFound"]
  /\ UNCHANGED <<ctx, overwrite, maxWorkers, faults, audit, listing, fs, dirs, foundFiles, processedFiles, skippedFiles,
                 errorCount, fileChan, fileChanClosed, errChan, errChanClosed, doneChan,
                 listingDone, wg, progressChan, progClosed, panicked>>
  /\ UNCHANGED <<listerVars, cpc, wfile, wreg, werr, mainVars,
                 attempts, sawCancel, ctxAtSelect, ctxAtReturn, pre, run, lprev, util, args>>

\* The loads that build currentProgress, in evaluation order.  ErrorCount is not set.
WLoad(w) ==
  /\ Running
  /\ \/ /\ wpc[w] = "ldFound"
        /\ wreg' = [wreg EXCEPT ![w].found = foundFiles]
        /\ wpc' = [wpc EXCEPT ![w] = "ldProc"]
     \/ /\ wpc[w] = "ldProc"
        /\ wreg' = [wreg EXCEPT ![w].downloaded = processedFiles]
        /\ wpc' = [wpc EXCEPT ![w] = "ldSkipA"]
     \/ /\ wpc[w] = "ldSkipA"
        /\ wreg' = [wreg EXCEPT ![w].downloaded = Downloaded(wreg[w].downloaded, skippedFiles)]
        /\ wpc' = [wpc EXCEPT ![w] = "ldSkipB"]
     \/ /\ wpc[w] = "ldSkipB"
        /\ wreg' = [wreg EXCEPT ![w].skipped = skippedFiles]
        /\ wpc' = [wpc EXCEPT ![w] = "ldBytes"]
     \/ /\ wpc[w] = "ldBytes"
        /\ wreg' = [wreg EXCEPT ![w].bytes = totalBytes]
        /\ wpc' = [wpc EXCEPT ![w] = "publish"]
  /\ UNCHANGED <<sharedVars, listerVars, cpc, wfile, werr, mainVars, histVars>>

\* select { case progressChan <- currentProgress: default: }
WPublish(w) ==
  /\ Running
  /\ wpc[w] = "publish"
  /\ wreg' = [wreg EXCEPT ![w] = NoSnap]
  /\ \/ /\ progClosed
        /\ panicked' = TRUE
        /\ UNCHANGED <<progressChan, wpc, wfile>>
     \/ /\ ~progClosed
        /\ progressChan < ProgCap
        /\ progressChan' = progressChan + 1
        /\ wpc' = [wpc EXCEPT ![w] = "recv"]
        /\ wfile' = [wfile EXCEPT ![w] = 0]
        /\ UNCHANGED panicked
     \/ /\ ~progClosed
        /\ DefaultReady(progressChan)
        /\ wpc' = [wpc EXCEPT ![w] = "recv"]
        /\ wfile' = [wfile EXCEPT ![w] = 0]
        /\ UNCHANGED <<progressChan, panicked>>
  /\ UNCHANGED <<ctx, overwrite, maxWorkers, faults, audit, listing, fs, dirs, foundFiles, processedFiles, skippedFiles, totalBytes,
                 errorCount, fileChan, fileChanClosed, errChan, errChanClosed, doneChan,
                 listingDone, wg, progClosed>>
  /\ UNCHANGED <<listerVars, cpc, werr, mainVars,
                 status, attempts, sawCancel, ctxAtSelect, ctxAtReturn, pre, run, lprev, util, args>>

\* errChan <- err (a blocking send), then continue
WSendErr(w) ==
  /\ Running
  /\ wpc[w] = "senderr"
  /\ \/ /\ errChanClosed
        /\ panicked' = TRUE
        /\ UNCHANGED <<errChan, wpc, werr, wfile>>
     \/ /\ ~errChanClosed
        /\ CanSend(errChan, ErrChanCap)
        /\ errChan' = Append(errChan, werr[w])
        /\ werr' = [werr EXCEPT ![w] = <<"none", 0>>]
        /\ wfile' = [wfile EXCEPT ![w] = 0]
        /\ wpc' = [wpc EXCEPT ![w] = "recv"]
        /\ UNCHANGED panicked
  /\ UNCHANGED <<ctx, overwrite, maxWorkers, faults, audit, listing, fs, dirs, foundFiles, processedFiles, skippedFiles, totalBytes,
                 errorCount, fileChan, fileChanClosed, errChanClosed, doneChan,
                 listingDone, wg, progressChan, progClosed>>
  /\ UNCHANGED <<listerVars, cpc, wreg, mainVars, histVars>>

Worker(w) ==
  \/ WRecv(w) \/ WSelect(w) \/ WMkdir(w) \/ WStat(w) \/ WSkipAddS(w) \/ WSkipAddP(w)
  \/ WDlMkdir(w) \/ WCreate(w) \/ WDownload(w) \/ WAddP(w) \/ WAddB(w)
  \/ WLoad(w) \/ WPublish(w) \/ WSendErr(w)

(* ------------------------------ closer -------------------------------- *)
\* <-listingDone; close(fileChan)
CCloseFile ==
  /\ Running
  /\ cpc = "waitListing"
  /\ listingDone
  /\ fileChanClosed' = TRUE
  /\ cpc' = "wgWait"
  /\ UNCHANGED <<ctx, overwrite, maxWorkers, faults, audit, listing, fs, dirs, foundFiles, processedFiles, skippedFiles, totalBytes,
                 errorCount, fileChan, errChan, errChanClosed, doneChan,
                 listingDone, wg, progressChan, progClosed, panicked>>
  /\ UNCHANGED <<listerVars, workerVars, mainVars, histVars>>

\* Faulty variant: the closer does not wait for the workers.
WaitReturnsAtOnce(n) == TRUE

\* wg.Wait() returns once the counter of the WaitGroup is zero.
WaitReturns(n) == n = 0

\* wg.Wait(); close(errChan)
CCloseErr ==
  /\ Running
  /\ cpc = "wgWait"
  /\ WaitReturns(wg)
  /\ errChanClosed' = TRUE
  /\ cpc' = "closeDone"
  /\ UNCHANGED <<ctx, overwrite, maxWorkers, faults, audit, listing, fs, dirs, foundFiles, processedFiles, skippedFiles, totalBytes,
                 errorCount, fileChan, fileChanClosed, errChan, doneChan,
                 listingDone, wg, progressChan, progClosed, panicked>>
  /\ UNCHANGED <<listerVars, workerVars, mainVars, histVars>>

\* close(doneChan)
CCloseDone ==
  /\ Running
  /\ cpc = "closeDone"
  /\ doneChan' = TRUE
  /\ cpc' = "done"
  /\ UNCHANGED <<ctx, overwrite, maxWorkers, faults, audit, listing, fs, dirs, foundFiles, processedFiles, skippedFiles, totalBytes,
                 errorCount, fileChan, fileChanClosed, errChan, errChanClosed,
                 listingDone, wg, progressChan, progClosed, panicked>>
  /\ UNCHANGED <<listerVars, workerVars, mainVars, histVars>>

Closer == CCloseFile \/ CCloseErr \/ CCloseDone

(* ---------------------- top-level call: completion -------------------- *)
\* Faulty variant: the last collected error is reported instead of the first.
ResultLast(es) ==
  IF Len(es) > 0
    THEN [kind |-> "Failed", first |-> es[Len(es)], count |-> Len(es)]
    ELSE [kind |-> "Success", first |-> <<"none", 0>>, count |-> 0]

\* return fmt.Errorf("encountered %d errors ... First error: %w", len(errs), errs[0]) / nil
Result(es) ==
  IF Len(es) > 0
    THEN [kind |-> "Failed", first |-> es[1], count |-> Len(es)]
    ELSE [kind |-> "Success", first |-> <<"none", 0>>, count |-> 0]

Canceled == [kind |-> "Canceled", first |-> ErrDownloadCanceled, count |-> 0]

\* select { case <-doneChan: case <-ctx.Done(): return ErrDownloadCanceled }
MSelect ==
  /\ Running
  /\ mpc = "select"
  /\ \/ /\ doneChan
        /\ mpc' = "drain"
        /\ ctxAtSelect' = ctx
        /\ UNCHANGED <<outcome, ctxAtReturn>>
     \/ /\ ctx
        /\ mpc' = "returned"
        /\ outcome' = Canceled
        /\ ctxAtSelect' = TRUE
        /\ ctxAtReturn' = TRUE
  /\ UNCHANGED <<sharedVars, listerVars, cpc, workerVars, errs, finalProgress, finalOffered,
                 status, attempts, sawCancel, pre, run, lprev, util, args>>

\* for e := range errChan { errs = append(errs, e); atomic.AddInt64(&errorCount, 1) }
MDrain ==
  /\ Running
  /\ mpc = "drain"
  /\ \/ /\ errChan # <<>>
        /\ errs' = Append(errs, Head(errChan))
        /\ errChan' = Tail(errChan)
        /\ errorCount' = AddInt64(errorCount, 1)
        /\ UNCHANGED mpc
     \/ /\ errChan = <<>>
        /\ errChanClosed
        /\ mpc' = "final"
        /\ UNCHANGED <<errs, errChan, errorCount>>
  /\ UNCHANGED <<ctx, overwrite, maxWorkers, faults, audit, listing, fs, dirs, foundFiles, processedFiles, skippedFiles, totalBytes,
                 fileChan, fileChanClosed, errChanClosed, doneChan,
                 listingDone, wg, progressChan, progClosed, panicked>>
  /\ UNCHANGED <<listerVars, cpc, workerVars, finalProgress, finalOffered, outcome, histVars>>

\* finalProgress := progress.Progress{...}
FinalSnapshot ==
  [found |-> foundFiles,
   downloaded |-> Downloaded(processedFiles, skippedFiles),
   skipped |-> skippedFiles,
   bytes |-> totalBytes,
   errors |-> errorCount]

\* Final progress update: select { case progressChan <- finalProgress: default: }
MFinal ==
  /\ Running
  /\ mpc = "final"
  /\ finalProgress' = FinalSnapshot
  /\ finalOffered' = TRUE
  /\ \/ /\ progClosed
        /\ panicked' = TRUE
        /\ UNCHANGED <<progressChan, mpc>>
     \/ /\ ~progClosed
        /\ progressChan < ProgCap
        /\ progressChan' = progressChan + 1
        /\ mpc' = "return"
        /\ UNCHANGED panicked
     \/ /\ ~progClosed
        /\ DefaultReady(progressChan)
        /\ mpc' = "return"
        /\ UNCHANGED <<progressChan, panicked>>
  /\ UNCHANGED <<ctx, overwrite, maxWorkers, faults, audit, listing, fs, dirs, foundFiles, processedFiles, skippedFiles, totalBytes,
                 errorCount, fileChan, fileChanClosed, errChan, errChanClosed, doneChan,
                 listingDone, wg, progClosed>>
  /\ UNCHANGED <<listerVars, cpc, workerVars, errs, outcome,
                 status, attempts, sawCancel, ctxAtSelect, ctxAtReturn, pre, run, lprev, util, args>>

\* Return first error if any occurred, nil otherwise.
MReturn ==
  /\ Running
  /\ mpc = "return"
  /\ outcome' = Result(errs)
  /\ ctxAtReturn' = ctx
  /\ mpc' = "returned"
  /\ UNCHANGED <<sharedVars, listerVars, cpc, workerVars, errs, finalProgress, finalOffered,
                 status, attempts, sawCancel, ctxAtSelect, pre, run, lprev, util, args>>

Main == MReject \/ MStart \/ MSelect \/ MDrain \/ MFinal \/ MReturn

(* ------------------------------- caller ------------------------------- *)
\* progressUpdater: for p := range u.state.progressChan
Consume ==
  /\ Running
  /\ progressChan > 0
  /\ progressChan' = progressChan - 1
  /\ UNCHANGED <<ctx, overwrite, maxWorkers, faults, audit, listing, fs, dirs, foundFiles, processedFiles, skippedFiles, totalBytes,
                 errorCount, fileChan, fileChanClosed, errChan, errChanClosed, doneChan,
                 listingDone, wg, progClosed, panicked>>
  /\ UNCHANGED <<listerVars, cpc, workerVars, mainVars, histVars>>

\* downloadFiles: close(u.state.progressChan) once ListAndDownloadObjects returned
CallerClose ==
  /\ Running
  /\ mpc = "returned"
  /\ ~progClosed
  /\ progClosed' = TRUE
  /\ UNCHANGED <<ctx, overwrite, maxWorkers, faults, audit, listing, fs, dirs, foundFiles, processedFiles, skippedFiles, totalBytes,
                 errorCount, fileChan, fileChanClosed, errChan, errChanClosed, doneChan,
                 listingDone, wg, progressChan, panicked>>
  /\ UNCHANGED <<listerVars, cpc, workerVars, mainVars, histVars>>

Caller == Consume \/ CallerClose

(* --------------------------- specification ---------------------------- *)
Next == Cancel \/ Main \/ Lister \/ Closer \/ (\E w \in Workers : Worker(w)) \/ Caller

Spec == Init /\ [][Next]_vars

\* Every runnable goroutine is eventually scheduled; the cancellation is the
\* user's and is under no obligation.
FairSpec ==
  /\ Spec
  /\ WF_vars(Main) /\ WF_vars(Lister) /\ WF_vars(Closer) /\ WF_vars(Caller)
  /\ \A w \in Workers : WF_vars(Worker(w))

(* ------------------- the lister's snapshots, in order ------------------ *)
\* The invocation of Spec, with the snapshot the lister built last kept in lprev.
AuditInit == InitFor(BaseListing, TRUE, TRUE)

AuditSpec == AuditInit /\ [][Next]_vars

(* --------------------------- nested object keys ------------------------ *)
\* A listing whose keys have directory segments: "a/b/c.txt" and "a/d.txt".
NestedListing ==
  <<[key |-> <<"a", "b", "c.txt">>, size |-> 30], [key |-> <<"a", "d.txt">>, size |-> 40]>>

NestedInit == InitFor(NestedListing, TRUE, FALSE)

NestedSpec == NestedInit /\ [][Next]_vars

(* ------------------ distinct keys, one local path ---------------------- *)
\* A listing with the pairwise distinct keys "a/b.txt" and "a//b.txt".
CollideListing ==
  <<[key |-> <<"a", "b.txt">>, size |-> 30], [key |-> <<"a", "", "b.txt">>, size |-> 40]>>

CollideInit == InitFor(CollideListing, TRUE, FALSE)

CollideSpec == CollideInit /\ [][Next]_vars

(* ------------------- the fileutils functions, called directly --------- *)
\* Number of calls a direct caller makes.
MaxCalls == 2

\* The paths a direct caller passes: the empty path, a nested directory, the
\* local path of an object, and a path nothing is at.
UtilPaths ==
  {EmptyPath} \cup
  {Abs(p) : p \in {<<"testdir", "subdir">>, <<"a", "b", "c.txt">>, <<"nonexistent.txt">>}}

\* err := EnsureDirectoryExists(path), called while no invocation runs
UEnsure(path) ==
  /\ mpc = "validate"
  /\ Len(util) < MaxCalls
  /\ dirs' = EnsureDirectoryExists(path).dirs
  /\ util' = Append(util, [fn |-> "EnsureDirectoryExists", path |-> path,
                           ret |-> EnsureDirectoryExists(path).err])
  /\ UNCHANGED <<ctx, overwrite, maxWorkers, faults, audit, listing, fs, foundFiles, processedFiles,
                 skippedFiles, totalBytes, errorCount, fileChan, fileChanClosed, errChan,
                 errChanClosed, doneChan, listingDone, wg, progressChan, progClosed, panicked>>
  /\ UNCHANGED <<listerVars, cpc, workerVars, mainVars,
                 status, attempts, sawCancel, ctxAtSelect, ctxAtReturn, pre, run, lprev, args>>

\* result := FileExists(path), called while no invocation runs
UExists(path) ==
  /\ mpc = "validate"
  /\ Len(util) < MaxCalls
  /\ util' = Append(util, [fn |-> "FileExists", path |-> path,
                           ret |-> IF FileExistsPath(path) THEN "true" ELSE "false"])
  /\ UNCHANGED <<sharedVars, listerVars, cpc, workerVars, mainVars,
                 status, attempts, sawCancel, ctxAtSelect, ctxAtReturn, pre, run, lprev, args>>

\* The listing of the invocation that follows the direct calls: "a/b/c.txt".
UtilListing == <<[key |-> <<"a", "b", "c.txt">>, size |-> 30]>>

UtilInit == InitFor(UtilListing, TRUE, FALSE) /\ maxWorkers = 1

Direct == \E path \in UtilPaths : UEnsure(path) \/ UExists(path)

UtilNext == Direct \/ Next

\* Direct calls of the fileutils functions, then one invocation over the
\* filesystem they left.
UtilSpec == UtilInit /\ [][UtilNext]_vars

(* ------------------------ the three-file scenario --------------------- *)
\* The listing {f1.txt: 100, f2.txt: 200, dir/f3.txt: 50}, without a marker.
ScenarioListing == [e \in 1..3 |-> [key |-> FileKey(e), size |-> FileSize(e)]]

\* A valid call with maxWorkers = 2 and overwrite = false, in an environment in
\* which no request, directory creation, file creation or transfer fails.
ScenarioInit == InitFor(ScenarioListing, FALSE, FALSE) /\ maxWorkers = 2 /\ ~overwrite

\* The steps of a run in which nothing fails and the user does not cancel.
ScenarioNext ==
  \/ MStart \/ MSelect \/ MDrain \/ MFinal \/ MReturn
  \/ LFetch \/ LEnqueue \/ LAddFound \/ LLoad \/ LPublish \/ LClose
  \/ Closer
  \/ \E w \in Workers :
        \/ WRecv(w) \/ WSelect(w) \/ WMkdir(w) \/ WStat(w) \/ WSkipAddS(w) \/ WSkipAddP(w)
        \/ WDlMkdir(w) \/ WCreate(w) \/ WDownload(w) \/ WAddP(w) \/ WAddB(w)
        \/ WLoad(w) \/ WPublish(w)
  \/ Caller

ScenarioSpec == ScenarioInit /\ [][ScenarioNext]_vars

(* ----------------------- sibling directories --------------------------- *)
\* A listing whose objects lie in the sibling directories "a/b" and "a/e", which
\* share the directory "a" above them.
SiblingListing ==
  <<[key |-> <<"a", "b", "c.txt">>, size |-> 30], [key |-> <<"a", "e", "d.txt">>, size |-> 40]>>

\* A valid call in an environment in which nothing fails.
SiblingInit == InitFor(SiblingListing, FALSE, FALSE)

SiblingSpec == SiblingInit /\ [][ScenarioNext]_vars

(* ------------------------- two runs in sequence ----------------------- *)
\* The engine is invoked again with the same bucket, prefix, destination and
\* overwrite flag after the first invocation has returned and its process (its
\* goroutines with it) has ended: fresh counters, channels, goroutines and
\* ctx; the listing is unchanged; the filesystem is what the first run left,
\* and whatever file is at a path is, for the second run, a file that existed
\* before the run.
Rerun ==
  /\ run = 1
  /\ mpc = "returned"
  /\ run' = 2
  /\ fs' = [p \in DOMAIN fs |-> IF fs[p] = "none" THEN "none" ELSE "old"]
  /\ pre' = {o \in Objs : At(o) # "none"}
  /\ ctx' = FALSE
  /\ foundFiles' = 0 /\ processedFiles' = 0 /\ skippedFiles' = 0
  /\ totalBytes' = 0 /\ errorCount' = 0
  /\ fileChan' = <<>> /\ fileChanClosed' = FALSE
  /\ errChan' = <<>> /\ errChanClosed' = FALSE
  /\ doneChan' = FALSE /\ listingDone' = FALSE
  /\ wg' = 0
  /\ progressChan' = 0 /\ progClosed' = FALSE
  /\ panicked' = FALSE
  /\ lpc' = "unstarted" /\ lidx' = 1 /\ lreg' = NoSnap /\ listErr' = "nil"
  /\ cpc' = "unstarted"
  /\ wpc' = [w \in Workers |-> "unstarted"]
  /\ wfile' = [w \in Workers |-> 0]
  /\ wreg' = [w \in Workers |-> NoSnap]
  /\ werr' = [w \in Workers |-> <<"none", 0>>]
  /\ mpc' = "validate" /\ errs' = <<>> /\ finalProgress' = NoSnap /\ outcome' = NoOutcome
  /\ finalOffered' = FALSE
  /\ status' = [e \in Objs |-> "unlisted"]
  /\ attempts' = [e \in Objs |-> 0]
  /\ sawCancel' = [w \in Workers |-> FALSE]
  /\ ctxAtSelect' = FALSE /\ ctxAtReturn' = FALSE
  /\ lprev' = <<>>
  /\ UNCHANGED <<overwrite, maxWorkers, faults, audit, listing, dirs, util, args>>

TwoRunInit == Init /\ ~overwrite

TwoRunNext == Next \/ Rerun

TwoRunSpec == TwoRunInit /\ [][TwoRunNext]_vars

(* ------------------------------- claims ------------------------------- *)
Returned == mpc = "returned" /\ outcome.kind # "InvalidArgs"

\* C1: an invocation with MaxWorkers >= 1 that is never canceled, and in which
\* every page fetch and every transfer attempt finishes, eventually returns an
\* outcome, whatever the number of per-object failures.
C1_EventuallyReturns == <>(mpc = "returned" \/ ctx)

\* C2: if ctx fires after the engine has started and before the top-level call
\* returns, the returned outcome is Canceled, never Success nor Failed.
C2_CancelYieldsCanceled ==
  (Returned /\ ctxAtReturn) => outcome.kind = "Canceled"

\* C3: when the top-level call returns, with any outcome, the lister and every
\* worker have already terminated.
C3_AllStoppedAtReturn ==
  Returned => /\ lpc = "done"
              /\ \A w \in Workers : wpc[w] \in {"unstarted", "exit"}

\* Object o ended: it was downloaded, skipped, or its error reached the collector.
Ended(o) ==
  \/ status[o] \in {"downloaded", "skipped"}
  \/ status[o] = "failed" /\ \A w \in Workers : wfile[w] # o

\* C4: without cancellation, per-object failures never stop the pool: every
\* descriptor the lister enqueued is eventually taken by a worker and ends as
\* downloaded, skipped or reported failed.
C4_EveryQueuedEnds ==
  \A o \in 1..NumObjs : (o \in Objs /\ status[o] = "queued") ~> (ctx \/ Ended(o))

\* Errors that occurred in the run: every failed object plus a listing failure.
ErrorsOccurred ==
  Cardinality({o \in Objs : status[o] = "failed"}) + (IF listErr = "failed" THEN 1 ELSE 0)

\* C5: in an invocation that completes without cancellation, the errorCount of
\* the final snapshot and the count of the Failed outcome equal the number of
\* errors that occurred in the run.
C5_ErrorCountExact ==
  (Returned /\ ~ctxAtReturn) =>
     /\ finalProgress.errors = ErrorsOccurred
     /\ outcome.count = ErrorsOccurred

NonNegative(p) ==
  p.found >= 0 /\ p.downloaded >= 0 /\ p.skipped >= 0 /\ p.bytes >= 0 /\ p.errors >= 0

\* C6: every snapshot the lister, a worker or the final publish offers to the
\* progress sink has all five fields >= 0.
C6_SnapshotsNonNegative ==
  /\ lpc = "publish" => NonNegative(lreg)
  /\ \A w \in Workers : wpc[w] = "publish" => NonNegative(wreg[w])
  /\ mpc \in {"return", "returned"} => NonNegative(finalProgress)

\* A descriptor was taken from the queue and neither downloaded nor skipped.
Lost(o) == status[o] \in {"taken", "failed", "aborted", "dropped"}

\* C7: once listing and draining are complete, the final counters satisfy
\* filesDownloaded + filesSkipped <= filesFound, with equality if and only if no
\* descriptor was taken from the queue without being downloaded or skipped.
C7_FinalCounters ==
  (mpc \in {"return", "returned"} /\ outcome.kind \notin {"Canceled", "InvalidArgs"}) =>
     /\ finalProgress.downloaded + finalProgress.skipped <= finalProgress.found
     /\ (finalProgress.downloaded + finalProgress.skipped = finalProgress.found)
          <=> (\A o \in Objs : ~Lost(o))

C7_Witness ==
  /\ mpc = "returned" /\ outcome.kind = "Failed"
  /\ finalProgress.found = NumObjs
  /\ finalProgress.skipped = 1
  /\ finalProgress.downloaded + finalProgress.skipped = NumObjs - 1

\* C8: the outcome is produced exactly once (it is set exactly when the call has
\* returned) and, when cancellation had not fired when the call observed
\* completion, it is Failed with the first collected error and the number of
\* collected errors if any error was collected, and Success otherwise.
C8_Outcome ==
  /\ (outcome.kind # "none") <=> (mpc = "returned")
  /\ (Returned /\ ~ctxAtSelect) =>
       LET collected == errs \o errChan
       IN  IF Len(collected) > 0
             THEN outcome = [kind |-> "Failed", first |-> collected[1],
                             count |-> Len(collected)]
             ELSE outcome = [kind |-> "Success", first |-> <<"none", 0>>, count |-> 0]

C8_Witness ==
  /\ Returned /\ ~ctxAtSelect
  /\ outcome.kind = "Failed" /\ outcome.count = 2
  /\ errs[1] # errs[2]

\* C9: in a run without cancellation in which exactly one object fails and the
\* listing does not, every other object is downloaded or skipped, every object
\* was taken exactly once (the failing one is not retried) and is counted
\* neither as downloaded nor as skipped, the final snapshot has errorCount >= 1
\* and the outcome is Failed.
C9_OneFailureIsolated ==
  (Returned /\ ~ctxAtReturn /\ listErr = "nil"
     /\ Cardinality({o \in Objs : status[o] = "failed"}) = 1) =>
     /\ \A o \in Objs : status[o] \in {"failed", "downloaded", "skipped"}
     /\ \A o \in Objs : attempts[o] = 1
     /\ finalProgress.skipped = Cardinality({o \in Objs : status[o] = "skipped"})
     /\ finalProgress.downloaded = Cardinality({o \in Objs : status[o] = "downloaded"})
     /\ finalProgress.errors >= 1
     /\ outcome.kind = "Failed"

C9_Witness ==
  /\ Returned /\ ~ctxAtReturn /\ listErr = "nil"
  /\ status[1] = "failed" /\ status[2] = "downloaded"
  /\ outcome.kind = "Failed"

\* C10: a worker whose cancellation check runs after the token fired exits
\* without touching the filesystem or the counters, its item is dropped, and a
\* worker that has exited never acts again.
C10_NoWorkAfterObservedCancel ==
  [][\A w \in Workers :
       /\ (wpc[w] = "select" /\ ctx /\ wpc'[w] # wpc[w]) =>
             /\ wpc'[w] = "exit"
             /\ status'[wfile[w]] = "dropped"
             /\ fs' = fs /\ processedFiles' = processedFiles
             /\ skippedFiles' = skippedFiles /\ totalBytes' = totalBytes
       /\ wpc[w] = "exit" => wpc'[w] = "exit"]_vars

C10_Witness ==
  \E w \in Workers : sawCancel[w] /\ wpc[w] = "exit" /\ fileChan # <<>>

\* C11: once the cancellation token has fired, no worker removes a further
\* descriptor from the task queue, and no descriptor is ever taken from the
\* queue and then discarded unprocessed.
C11_NoDequeueAfterCancel ==
  [][/\ ctx => Len(fileChan') >= Len(fileChan)
     /\ \A o \in Objs : status'[o] # "dropped"]_vars

\* C12: once the cancellation token has fired, the lister enqueues no further
\* descriptor into the task queue, also when the queue has free space.
C12_NoEnqueueAfterCancel ==
  [][ctx => Len(fileChan') <= Len(fileChan)]_vars

\* C13: whenever an invocation that started its workers has returned, with any
\* outcome, the final snapshot was offered to the progress sink, and all workers
\* had finished.
C13_FinalPublishAlways ==
  Returned => /\ finalOffered
              /\ \A w \in Workers : wpc[w] \in {"unstarted", "exit"}

\* C14: a snapshot that is built after an error was reported carries
\* errorCount >= 1.  With a single worker every per-object error in errChan was
\* sent by that worker before it took the item whose snapshot it now offers.
C14_SnapshotsCarryErrors ==
  \A w \in Workers :
     (/\ maxWorkers = 1
      /\ wpc[w] = "publish"
      /\ \E i \in 1..Len(errChan) : errChan[i][1] = "object")
       => wreg[w].errors >= 1

\* What a non-blocking send does to the buffer of progressChan: the snapshot is
\* buffered if there is room and dropped otherwise.
SentOrDropped == progressChan' = IF progressChan < ProgCap THEN progressChan + 1 ELSE progressChan

EngineUntouched ==
  UNCHANGED <<fs, dirs, foundFiles, processedFiles, skippedFiles, totalBytes, errorCount,
              fileChan, errChan, wg>>

\* C15: the engine never blocks on the progress sink.  A goroutine that is at a
\* publish (the lister after an enqueue, a worker after a skip or a transfer, the
\* top-level call at the final publish) can always take its step, whatever the
\* buffer holds; the step buffers the snapshot or drops it, changes no counter,
\* queue or file, and leads where it leads when the buffer has room (the
\* lister's publish may instead return on ctx.Done).
C15_PublishNeverBlocks ==
  /\ [](Running =>
          /\ lpc = "publish" => ENABLED LPublish
          /\ \A w \in Workers : wpc[w] = "publish" => ENABLED WPublish(w)
          /\ mpc = "final" => ENABLED MFinal)
  /\ [][/\ (lpc = "publish" /\ lpc' # lpc) =>
             /\ EngineUntouched
             /\ \/ lpc' = NextPc(lidx) /\ lidx' = NextIdx(lidx) /\ SentOrDropped
                \/ ctx /\ lpc' = "lclose" /\ progressChan' = progressChan
        /\ \A w \in Workers : (wpc[w] = "publish" /\ wpc'[w] # wpc[w]) =>
             /\ EngineUntouched
             /\ wpc'[w] = "recv"
             /\ SentOrDropped
        /\ (mpc = "final" /\ mpc' # mpc) =>
             /\ EngineUntouched
             /\ mpc' = "return"
             /\ finalProgress' = FinalSnapshot
             /\ SentOrDropped]_vars

C15_Witness ==
  /\ ~progClosed /\ progressChan = ProgCap
  /\ lpc = "publish"
  /\ \E w \in Workers : wpc[w] = "publish"

\* C16: an object whose local path holds a file when its worker examines it,
\* with overwrite false, goes through the skip branch: skippedFiles and
\* processedFiles each rise by exactly 1 for it, totalBytes and the filesystem
\* are untouched, and the file that existed before the run is still there,
\* unchanged, ever after (no file was created and no transfer made for it).
C16_SkipExisting ==
  /\ [](\A o \in Objs : status[o] = "skipped" => (o \in pre /\ At(o) = "old"))
  /\ [][\A w \in Workers :
         /\ (wpc[w] = "stat" /\ At(wfile[w]) # "none" /\ ~overwrite /\ wpc'[w] # wpc[w]) =>
               /\ wpc'[w] = "skipAddS"
               /\ UNCHANGED <<fs, processedFiles, skippedFiles, totalBytes>>
         /\ (wpc[w] = "skipAddS" /\ wpc'[w] # wpc[w]) =>
               /\ wpc'[w] = "skipAddP"
               /\ skippedFiles' = AddInt64(skippedFiles, 1)
               /\ UNCHANGED <<fs, processedFiles, totalBytes>>
         /\ (wpc[w] = "skipAddP" /\ wpc'[w] # wpc[w]) =>
               /\ wpc'[w] = "ldFound"
               /\ status'[wfile[w]] = "skipped"
               /\ processedFiles' = AddInt64(processedFiles, 1)
               /\ UNCHANGED <<fs, skippedFiles, totalBytes>>]_vars

C16_Witness ==
  \E o \in Objs : status[o] = "skipped" /\ At(o) = "old" /\ ~overwrite /\ skippedFiles = 1

\* The worker that took object o has finished with it.
WorkerFinished(o) ==
  /\ status[o] \in {"downloaded", "skipped", "failed", "aborted"}
  /\ \A w \in Workers : wfile[w] # o

\* C17 as stated: with overwrite=true a file that exists before the run is
\* never skipped and, once the worker has finished with the object, the path
\* holds the downloaded content, in every run.
C17_AlwaysReplaced ==
  overwrite =>
    \A o \in pre : /\ status[o] # "skipped"
                   /\ WorkerFinished(o) => At(o) = "new"

\* C17: with overwrite=true a file that exists before the run is never skipped;
\* once the worker has finished with the object the path holds the downloaded
\* content if the transfer succeeded, no file at all if the transfer was
\* canceled, and no file or still the old file if the object failed (the
\* transfer failed and the truncated file was removed, or the directory or the
\* file could not be created).
C17_ReplacedOrRemoved ==
  overwrite =>
    /\ \A w \in Workers : wpc[w] \notin {"skipAddS", "skipAddP"}
    /\ \A o \in pre :
         /\ status[o] # "skipped"
         /\ WorkerFinished(o) =>
              /\ status[o] = "downloaded" => At(o) = "new"
              /\ status[o] = "aborted" => At(o) = "none"
              /\ status[o] = "failed" => At(o) \in {"none", "old"}

C17_Witness ==
  /\ overwrite
  /\ \E o \in pre : WorkerFinished(o) /\ status[o] = "failed" /\ At(o) = "none"

\* How often x occurs in the sequence s.
Count(x, s) == Cardinality({i \in 1..Len(s) : s[i] = x})

\* C19: a transfer that fails (by an error, the per-object deadline or the
\* cancellation) leaves no file at the object's path and changes neither
\* processedFiles nor totalBytes; the worker hands exactly one error to errChan
\* for it; the object is taken from the queue only once, its fate does not
\* change afterwards and no file appears at its path again.
C19_FailedTransfer ==
  /\ [](/\ \A o \in Objs : attempts[o] <= 1
        /\ \A o \in Objs : (status[o] = "failed" /\ \A w \in Workers : wfile[w] # o) =>
              Count(<<"object", o>>, errs \o errChan) = 1
        /\ Count(ErrDownloadCanceled, errs \o errChan) =
              Cardinality({o \in Objs : status[o] = "aborted" /\ \A w \in Workers : wfile[w] # o}))
  /\ [][/\ \A w \in Workers :
            /\ (wpc[w] = "download" /\ wpc'[w] = "senderr") =>
                  /\ fs'[LocalPath(wfile[w])] = "none"
                  /\ werr'[w] \in {<<"object", wfile[w]>>, ErrDownloadCanceled}
                  /\ UNCHANGED <<processedFiles, totalBytes, errChan>>
            /\ (wpc[w] = "senderr" /\ wpc'[w] # wpc[w]) =>
                  /\ wpc'[w] = "recv"
                  /\ errChan' = Append(errChan, werr[w])
                  /\ UNCHANGED <<fs, processedFiles, totalBytes>>
        /\ \A o \in Objs : status[o] \in {"failed", "aborted"} =>
              /\ status'[o] = status[o]
              /\ At(o) = "none" => fs'[LocalPath(o)] = "none"]_vars

C19_Witness ==
  \E o \in Objs :
     /\ status[o] = "aborted" /\ At(o) = "none"
     /\ \A w \in Workers : wfile[w] # o
     /\ Count(ErrDownloadCanceled, errChan) = 1

\* A worker is at the transfer of the object in hand, from the creation of the
\* file to the counting of the downloaded bytes.
Transferring(w) == wpc[w] \in {"dlMkdir", "create", "download", "addP", "addB"}

DirMarker(e) == Size(e) = 0 /\ Key(e)[Len(Key(e))] = ""

\* C20: a directory marker of the listing is filtered out by the lister: it is
\* never placed on the task queue nor taken by a worker, no file is created
\* for it, and filesFound counts the other entries only.
C20_MarkerFiltered ==
  /\ \A e \in Objs : DirMarker(e) =>
        /\ status[e] \in {"unlisted", "marker"}
        /\ \A w \in Workers : wfile[w] # e
        /\ At(e) = "none"
  /\ foundFiles <= Cardinality({e \in Objs : ~DirMarker(e)})

\* C21: when a page request of the listing fails, the lister stops listing and
\* its error reaches the error collector; fileChan is closed only after the
\* lister stopped; every descriptor enqueued before the failure is processed to
\* its end, and a run that is not canceled returns Failed with the listing error
\* among the collected errors.
C21_ListingFailure ==
  /\ listErr = "failed" => lpc \in {"lerr", "lclose", "done"}
  /\ fileChanClosed => listingDone
  /\ (Returned /\ ~ctxAtReturn /\ listErr = "failed") =>
        /\ Count(<<"listing", 0>>, errs) = 1
        /\ outcome.kind = "Failed"
        /\ fileChanClosed /\ fileChan = <<>>
        /\ \A o \in Objs : status[o] \in {"unlisted", "downloaded", "skipped", "failed"}

\* C22: in the three-file scenario with no local file before the run, every
\* interleaving of the lister and the two workers ends with the final snapshot
\* {found 3, downloaded 3, skipped 0, bytes 350, errors 0} and outcome Success.
C22_ScenarioAllNew ==
  (Returned /\ pre = {}) =>
     /\ finalProgress = [found |-> 3, downloaded |-> 3, skipped |-> 0, bytes |-> 350, errors |-> 0]
     /\ outcome.kind = "Success"

C22_Witness ==
  /\ Returned /\ pre = {} /\ maxWorkers = 2 /\ ~overwrite
  /\ \A o \in Objs : status[o] = "downloaded" /\ At(o) = "new"
  /\ finalProgress.bytes = 350

\* C23 as stated: in the three-file scenario with f1.txt already present, the
\* final snapshot is {found 3, downloaded 3, skipped 1, bytes 250, errors 0}.
C23_SkippedCountedAsDownloaded ==
  (Returned /\ pre = {1}) =>
     finalProgress = [found |-> 3, downloaded |-> 3, skipped |-> 1, bytes |-> 250, errors |-> 0]

\* C23 amended: in the three-file scenario with f1.txt already present, the
\* final snapshot is {found 3, downloaded 2, skipped 1, bytes 250, errors 0}
\* (a skipped file is not counted as downloaded) and the outcome is Success.
C23_ScenarioOneSkipped ==
  (Returned /\ pre = {1}) =>
     /\ finalProgress = [found |-> 3, downloaded |-> 2, skipped |-> 1, bytes |-> 250, errors |-> 0]
     /\ outcome.kind = "Success"

C23_Witness ==
  /\ Returned /\ pre = {1} /\ maxWorkers = 2 /\ ~overwrite
  /\ status[1] = "skipped" /\ At(1) = "old"
  /\ status[2] = "downloaded" /\ status[3] = "downloaded"
  /\ finalProgress.skipped = 1

\* C24: no reported counter value ever decreases: of two snapshots the lister
\* builds one after the other, the later reports, for each of found, downloaded,
\* skipped, bytes and errors, a value >= the one the earlier reported.
C24_SnapshotsMonotone ==
  (audit /\ Running /\ lpc = "publish" /\ lprev # <<>>) =>
     /\ lreg.found >= lprev[1].found
     /\ lreg.downloaded >= lprev[1].downloaded
     /\ lreg.skipped >= lprev[1].skipped
     /\ lreg.bytes >= lprev[1].bytes
     /\ lreg.errors >= lprev[1].errors

\* C25: a descriptor the lister enqueues is taken from fileChan at most once and
\* is in the hands of at most one worker; when a run returns that was not
\* canceled, every enqueued descriptor was taken exactly once and processed to
\* its end (downloaded, skipped or failed), and fileChan is empty.
C25_TakenExactlyOnce ==
  /\ \A o \in Objs :
        /\ attempts[o] <= 1
        /\ Cardinality({w \in Workers : wfile[w] = o}) <= 1
        /\ attempts[o] = 1 => status[o] \notin {"unlisted", "queued"}
        /\ status[o] = "queued" => attempts[o] = 0
  /\ (Returned /\ ~ctxAtReturn) =>
        /\ fileChan = <<>>
        /\ \A o \in Objs :
              status[o] # "unlisted" =>
                 /\ attempts[o] = 1
                 /\ status[o] \in {"downloaded", "skipped", "failed"}

C25_Witness ==
  /\ Returned /\ ~ctxAtReturn /\ maxWorkers = 2
  /\ \A o \in Objs : attempts[o] = 1
  /\ \E o \in Objs : status[o] = "failed"

\* C26: for each object a worker processes the steps happen in a fixed order.
\* The parent directories exist before the worker goes on to create the file,
\* the file is created (or truncated) before the transfer is attempted, and a
\* worker whose directory creation or file creation failed leaves the
\* filesystem as it is and goes on to report the error, never to the transfer.
C26_StepOrder ==
  /\ [](\A w \in Workers :
          /\ wpc[w] \in {"create", "download"} =>
                Prefixes(Dir(LocalPath(wfile[w]))) \subseteq dirs
          /\ wpc[w] = "download" =>
                (At(wfile[w]) = "partial" /\ status[wfile[w]] = "taken"))
  /\ [][\A w \in Workers :
          /\ (wpc'[w] = "create" /\ wpc[w] # "create") => wpc[w] = "dlMkdir"
          /\ (wpc'[w] = "download" /\ wpc[w] # "download") =>
                (wpc[w] = "create" /\ fs'[LocalPath(wfile[w])] = "partial")
          /\ (wpc[w] \in {"mkdir", "dlMkdir", "create"} /\ status'[wfile[w]] = "failed") =>
                (wpc'[w] = "senderr" /\ UNCHANGED <<fs, dirs>>)
          /\ (wpc[w] = "senderr" /\ wpc'[w] # "senderr") =>
                (wpc'[w] = "recv" /\ UNCHANGED <<fs, dirs>>)]_vars

C26_Witness ==
  \E w \in Workers :
     /\ wpc[w] = "download" /\ wfile[w] = 1
     /\ 1 \notin pre
     /\ {<<"a">>, <<"a", "b">>} \subseteq dirs
     /\ At(1) = "partial"
     /\ status[2] = "failed" /\ At(2) = "none"

\* C27: fileChan never holds more descriptors than its capacity.  With the
\* queue full and ctx not done the lister has no step: it neither drops the
\* descriptor in hand nor moves on.  The lister leaves a descriptor only by
\* enqueuing it or because ctx is done, and foundFiles is incremented, by one,
\* only for a descriptor that was enqueued.
C27_BoundedQueue ==
  /\ [](/\ Len(fileChan) <= FileChanCap
        /\ foundFiles <= Cardinality({o \in Objs : status[o] # "unlisted"})
        /\ (Running /\ lpc = "item" /\ ~ctx /\ Len(fileChan) = FileChanCap) => ~ENABLED Lister)
  /\ [][/\ (lpc = "item" /\ lpc' # "item" /\ Running') =>
              \/ /\ fileChan' = Append(fileChan, lidx)
                 /\ lpc' = "addFound" /\ lidx' = lidx
              \/ /\ ctx /\ lpc' = "lclose"
                 /\ UNCHANGED <<fileChan, lidx, foundFiles>>
        /\ lidx' # lidx => (status[lidx] # "unlisted" /\ lidx' = lidx + 1)
        /\ foundFiles' # foundFiles =>
              /\ lpc = "addFound" /\ status[lidx] # "unlisted"
              /\ foundFiles' = foundFiles + 1]_vars

C27_Witness ==
  /\ Running /\ lpc = "item" /\ ~ctx
  /\ Len(fileChan) = FileChanCap /\ FileChanCap < ListLen
  /\ status[lidx] = "unlisted" /\ foundFiles = lidx - 1
  /\ ~ENABLED Lister

C29_DistinctPaths ==
  (\A o1, o2 \in Objs : o1 # o2 => Key(o1) # Key(o2)) =>
     \A w1, w2 \in Workers :
        (w1 # w2 /\ wfile[w1] # 0 /\ wfile[w2] # 0) =>
           LocalPath(wfile[w1]) # LocalPath(wfile[w2])

\* The transfer of object o succeeded.
Transferred(o) ==
  \/ status[o] = "downloaded"
  \/ \E w \in Workers : wfile[w] = o /\ wpc[w] \in {"addP", "addB"}

\* C30: an object whose key is made of non-empty segments and whose transfer
\* succeeded has its file at the download path joined with exactly these
\* segments, and from then on every proper prefix of the segments is a
\* directory (and not a file).
C30_PathFidelity ==
  \A o \in Objs :
     (Transferred(o) /\ \A i \in 1..Len(Key(o)) : Key(o)[i] # "") =>
        /\ Key(o) \in DOMAIN fs /\ fs[Key(o)] = "new"
        /\ Key(o) \notin dirs
        /\ \A n \in 0..(Len(Key(o)) - 1) :
              SubSeq(Key(o), 1, n) \in dirs /\ ~IsFile(SubSeq(Key(o), 1, n))

C30_Witness ==
  /\ status[1] = "downloaded" /\ 1 \notin pre
  /\ Key(1) = <<"a", "b", "c.txt">>
  /\ fs[<<"a", "b", "c.txt">>] = "new"
  /\ {<<"a">>, <<"a", "b">>} \subseteq dirs
  /\ status[2] = "unlisted"

\* C31: a transfer that fails while ctx is not done (the expiry of the
\* per-object deadline is such a failure: its error is not context.Canceled) is
\* an error of that object only.  The partial file is removed, the error names
\* the object and is not the cancellation error, ctx stays as it is, no other
\* worker and no other object is touched and no counter moves; no object is
\* aborted or dropped while ctx is not done; and a run that returns without
\* cancellation after such a failure returns Failed.
C31_DeadlineIsObjectError ==
  /\ [](/\ ~ctx => \A o \in Objs : status[o] \notin {"aborted", "dropped"}
        /\ (Returned /\ ~ctxAtReturn /\ \E o \in Objs : status[o] = "failed") =>
              (outcome.kind = "Failed" /\ \A i \in 1..Len(errs) : errs[i] # ErrDownloadCanceled))
  /\ [][\A w \in Workers :
          (wpc[w] = "download" /\ ~ctx /\ wpc'[w] = "senderr") =>
             /\ fs'[LocalPath(wfile[w])] = "none"
             /\ werr'[w] = <<"object", wfile[w]>>
             /\ status'[wfile[w]] = "failed"
             /\ ctx' = ctx
             /\ \A v \in Workers \ {w} : wpc'[v] = wpc[v] /\ wfile'[v] = wfile[v]
             /\ \A o \in Objs \ {wfile[w]} : status'[o] = status[o] /\ At(o)' = At(o)
             /\ UNCHANGED <<processedFiles, skippedFiles, totalBytes, errChan>>]_vars

C31_Witness ==
  /\ Returned /\ ~ctx /\ overwrite
  /\ outcome.kind = "Failed" /\ outcome.count = 1
  /\ \E o \in pre : status[o] = "failed" /\ At(o) = "none"
  /\ \E o \in Objs : status[o] = "downloaded"

\* The sum of the listed sizes of the objects in S.
RECURSIVE SumSizes(_)
SumSizes(S) ==
  IF S = {} THEN 0
  ELSE LET o == CHOOSE x \in S : TRUE IN listing[o].size + SumSizes(S \ {o})

\* C32: in every state totalBytes is the sum of the sizes of the objects whose
\* transfer succeeded and was counted; the net processed count is the number of
\* these objects plus those between their two increments.  totalBytes changes
\* only by the size of an object a worker transferred, after that worker
\* incremented processedFiles for it; skipped and failed objects add nothing.
C32_TotalBytes ==
  /\ [](/\ totalBytes = SumSizes({o \in Objs : status[o] = "downloaded"})
        /\ processedFiles - skippedFiles =
              Cardinality({o \in Objs : status[o] = "downloaded"})
              + Cardinality({w \in Workers : wpc[w] = "addB"})
              - Cardinality({w \in Workers : wpc[w] = "skipAddP"}))
  /\ [][totalBytes' # totalBytes =>
          \E w \in Workers :
             /\ wpc[w] = "addB" /\ At(wfile[w]) = "new"
             /\ status[wfile[w]] = "taken" /\ status'[wfile[w]] = "downloaded"
             /\ totalBytes' = totalBytes + listing[wfile[w]].size
             /\ UNCHANGED <<processedFiles, skippedFiles>>]_vars

C32_Witness ==
  /\ Returned /\ ~ctx
  /\ totalBytes = 30 /\ status[1] = "downloaded"
  /\ status[2] \in {"skipped", "failed"}
  /\ finalProgress.bytes = 30

\* A worker's call of EnsureDirectoryExists returns in this step.
MkdirReturns(w) == wpc[w] \in {"mkdir", "dlMkdir"} /\ wpc'[w] # wpc[w]

\* C33: in an environment without failures every call of EnsureDirectoryExists
\* by a worker succeeds, whatever the other workers do: after it the directory
\* and the directories above it exist, nothing that existed is lost, no file is
\* touched, and a call for a directory that exists already (the worker's own
\* second call in particular) leaves the filesystem as it is.  When the run has
\* returned, the directory of every listed object is present.
C33_MkdirIdempotent ==
  /\ [](/\ \A o \in Objs : status[o] # "failed"
        /\ \A w \in Workers : wpc[w] # "senderr"
        /\ Returned => \A o \in Objs : Prefixes(Dir(LocalPath(o))) \subseteq dirs)
  /\ [][\A w \in Workers :
          MkdirReturns(w) =>
             /\ wpc'[w] = (IF wpc[w] = "mkdir" THEN "stat" ELSE "create")
             /\ Prefixes(Dir(LocalPath(wfile[w]))) \subseteq dirs'
             /\ dirs \subseteq dirs'
             /\ Dir(LocalPath(wfile[w])) \in dirs => dirs' = dirs
             /\ wpc[w] = "dlMkdir" => dirs' = dirs
             /\ fs' = fs]_vars

C33_Witness ==
  \E w1, w2 \in Workers :
     /\ w1 # w2
     /\ wfile[w1] = 1 /\ wpc[w1] = "create"
     /\ wfile[w2] = 2 /\ wpc[w2] = "mkdir"
     /\ pre = {}
     /\ dirs = {<<>>, <<"a">>, <<"a", "b">>}

(* ---------------------------------------------------------------------- *)
\* A direct call of EnsureDirectoryExists with this path has just returned.
EnsureCalled(path) ==
  /\ Len(util') = Len(util) + 1
  /\ util'[Len(util')].fn = "EnsureDirectoryExists"
  /\ util'[Len(util')].path = path

\* C34: EnsureDirectoryExists called with the empty path returns an error and
\* leaves the filesystem unchanged; called with a path none of whose elements
\* is an existing file, it returns no error, the directory (with its parents)
\* exists afterwards, and no file and no existing directory is touched.
C34_EnsureDirectoryExists ==
  [][\A path \in UtilPaths :
       EnsureCalled(path) =>
         LET ret == util'[Len(util')].ret
         IN  /\ path = EmptyPath => ret # "nil" /\ dirs' = dirs /\ fs' = fs
             /\ (path # EmptyPath /\ \A q \in Prefixes(Tail(path)) : ~IsFile(q))
                  => /\ ret = "nil"
                     /\ Prefixes(Tail(path)) \subseteq dirs'
                     /\ dirs \subseteq dirs'
                     /\ fs' = fs]_vars

C34_Witness ==
  /\ util = <<[fn |-> "EnsureDirectoryExists", path |-> EmptyPath, ret |-> "empty path provided"],
              [fn |-> "EnsureDirectoryExists", path |-> Abs(<<"testdir", "subdir">>), ret |-> "nil"]>>
  /\ <<"testdir", "subdir">> \in dirs
  /\ <<"testdir">> \in dirs

(* ---------------------------------------------------------------------- *)
\* A direct call of FileExists with this path has just returned.
ExistsCalled(path) ==
  /\ Len(util') = Len(util) + 1
  /\ util'[Len(util')].fn = "FileExists"
  /\ util'[Len(util')].path = path

\* Something, a file or a directory, is at the path.
EntryAt(path) ==
  /\ path # EmptyPath
  /\ \/ Tail(path) \in DOMAIN fs /\ fs[Tail(path)] # "none"
     \/ Tail(path) \in dirs

\* Worker w decides at "if fileutils.FileExists(localFilePath) && !overwrite".
SkipDecided(w) == wpc[w] = "stat" /\ wpc'[w] # "stat"

\* C35: FileExists(path) returns true when a file or a directory is at path,
\* false when nothing is there or the path is empty, and changes no file and
\* no directory; a worker skips its object exactly when the function's result
\* for the object's local path is true and overwrite is off, which is the
\* result a direct call for that path returned just before the invocation.
C35_FileExists ==
  [][/\ \A path \in UtilPaths :
          ExistsCalled(path) =>
            /\ util'[Len(util')].ret = (IF EntryAt(path) THEN "true" ELSE "false")
            /\ path = EmptyPath => util'[Len(util')].ret = "false"
            /\ fs' = fs /\ dirs' = dirs
     /\ \A w \in Workers :
          SkipDecided(w) =>
            /\ wpc'[w] \in {"skipAddS", "dlMkdir"}
            /\ wpc'[w] = "skipAddS" <=> (EntryAt(Abs(LocalPath(wfile[w]))) /\ ~overwrite)
            /\ fs' = fs /\ dirs' = dirs
            /\ (/\ util # <<>>
                /\ util[Len(util)].fn = "FileExists"
                /\ util[Len(util)].path = Abs(LocalPath(wfile[w])))
                 => (wpc'[w] = "skipAddS" <=> (util[Len(util)].ret = "true" /\ ~overwrite))]_vars

C35_Witness ==
  /\ util = <<[fn |-> "FileExists", path |-> EmptyPath, ret |-> "false"],
              [fn |-> "FileExists", path |-> Abs(<<"a", "b", "c.txt">>), ret |-> "true"]>>
  /\ ~overwrite
  /\ wpc[1] = "skipAddS"
  /\ wfile[1] = 1

(* ---------------------------------------------------------------------- *)
\* C36: after the top-level call has returned, with any outcome, no lister and
\* no worker of the invocation sends on the progress channel again, so that no
\* send meets the channel the caller closed after the return.
C36_NoSendAfterReturn ==
  [][Returned => /\ progressChan' <= progressChan
                 /\ ~panicked']_vars

(* ---------------------------------------------------------------------- *)
\* Worker w stands at "errChan <- err" and the buffer of errChan is full.
BlockedOnErrChan(w) == wpc[w] = "senderr" /\ ~errChanClosed /\ Len(errChan) >= ErrChanCap

\* C37: after the cancellation token fired, the lister, every worker and the
\* closer terminate; in particular, once the top-level call has returned
\* Canceled, and with it the only receiver of errChan is gone, no worker stands
\* blocked at its send on errChan (a worker in that state stays there for ever,
\* and the closer with it in wg.Wait).
C37_NoWorkerBlockedAfterCancel ==
  (ctx /\ mpc = "returned" /\ outcome.kind = "Canceled") =>
     \A w \in Workers : ~BlockedOnErrChan(w)

(* ---------------------------------------------------------------------- *)
\* C38: a Success return means the listing was enumerated to its end without
\* error and every entry that is not a directory marker was transferred
\* completely to its local path or skipped because its file existed; a run
\* canceled with entries unlisted, queued or dropped does not return Success.
C38_SuccessMeansComplete ==
  (Returned /\ outcome.kind = "Success") =>
     /\ listErr = "nil"
     /\ \A o \in Objs :
          ~DirMarker(o) =>
             \/ status[o] = "downloaded" /\ At(o) = "new"
             \/ status[o] = "skipped" /\ At(o) = "old"

(* ---------------------------------------------------------------------- *)
ListerStopped == lpc = "done"
WorkersStopped == \A w \in Workers : wpc[w] \in {"unstarted", "exit"}

\* C39: fileChan is closed once, and only after the lister has stopped, so that
\* nothing is enqueued on the closed queue; errChan is closed once, and only
\* after the lister and all workers have stopped, so that no error is sent on
\* the closed channel; doneChan is closed only after errChan; under
\* cancellation and listing failure alike.
C39_CloseSafety ==
  /\ [](fileChanClosed => ListerStopped /\ listingDone)
  /\ [](errChanClosed => fileChanClosed /\ ListerStopped /\ WorkersStopped)
  /\ [](doneChan => errChanClosed)
  /\ [][/\ cpc' # cpc /\ cpc = "waitListing" => ~fileChanClosed /\ fileChanClosed'
        /\ cpc' # cpc /\ cpc = "wgWait" => ~errChanClosed /\ errChanClosed'
        /\ cpc' # cpc /\ cpc = "closeDone" => ~doneChan /\ doneChan'
        /\ fileChanClosed => fileChanClosed' /\ Len(fileChan') <= Len(fileChan)
        /\ errChanClosed => errChanClosed' /\ Len(errChan') <= Len(errChan)
        /\ doneChan => doneChan'
        /\ (panicked' /\ ~panicked) => progClosed]_vars

C39_Witness ==
  /\ doneChan /\ errChanClosed /\ fileChanClosed
  /\ ctx
  /\ listErr = "failed"
  /\ \E w \in Workers : sawCancel[w]

(* ---------------------------------------------------------------------- *)
\* The call was made with arguments the validation refuses: an empty bucket, an
\* empty download path, or a download path that was missing and could not be
\* created (the call is past its validation and the path is still missing).
Refused ==
  /\ args # <<>>
  /\ \/ args[1] = ""
     \/ args[2] = EmptyPath
     \/ args[2] # EmptyPath /\ ~FileExistsPath(args[2])

NothingStarted ==
  /\ lpc = "unstarted" /\ cpc = "unstarted"
  /\ \A w \in Workers : wpc[w] = "unstarted"
  /\ wg = 0
  /\ lidx = 1 /\ listErr = "nil"
  /\ fileChan = <<>> /\ errChan = <<>>
  /\ ~fileChanClosed /\ ~errChanClosed /\ ~doneChan /\ ~listingDone

NothingPublished ==
  /\ progressChan = 0 /\ ~finalOffered /\ lreg = NoSnap
  /\ foundFiles = 0 /\ processedFiles = 0 /\ skippedFiles = 0 /\ totalBytes = 0 /\ errorCount = 0

NothingRequested ==
  /\ \A e \in Objs : status[e] = "unlisted" /\ attempts[e] = 0
  /\ \A o \in Objs : At(o) = (IF o \in pre THEN "old" ELSE "none")

\* C40: a call with an empty bucket name, an empty download path, or a download
\* path that does not exist and cannot be created returns an error at once: its
\* outcome is the validation error, no lister, worker or closer was started, no
\* snapshot was published, and no page and no transfer was requested; and
\* nothing of the invocation runs afterwards.
C40_RejectedAtOnce ==
  /\ [](Refused => /\ mpc = "returned" /\ outcome.kind = "InvalidArgs"
                   /\ NothingStarted /\ NothingPublished /\ NothingRequested)
  /\ [][mpc = "validate" /\ mpc' = "returned" => Refused']_vars
  /\ [][outcome.kind = "InvalidArgs" =>
          UNCHANGED <<fs, dirs, lpc, cpc, wpc, mpc, outcome, fileChan, errChan>>]_vars

C40_Witness ==
  /\ args = <<"bucket", Abs(<<>>)>>
  /\ outcome = [kind |-> "InvalidArgs", first |-> <<"mkdir", 0>>, count |-> 0]
  /\ mpc = "returned"
  /\ dirs = {}

====
